---- MODULE Spec2Model ----
(***************************************************************************)
(* Model of temporal-ai-agent: the SayHelloWorkflow signal loop             *)
(* (workflows/workflow.go) and the HTTP gateway handlers that start it and *)
(* signal it (api server).  One workflow instance is modelled; the durable *)
(* execution engine is represented by the channel contents, the position   *)
(* of the workflow coroutine and the outcome of each activity.             *)
(***************************************************************************)
EXTENDS Integers, Sequences, FiniteSets, TLC

VARIABLES
    pc,            \* position of the workflow coroutine
    name,          \* argument of SayHelloWorkflow
    result,        \* local variable `result` of SayHelloWorkflow
    chans,         \* pending payloads of the three signal channels
    actInput,      \* input of the activity the coroutine is blocked on
    inFlight,      \* number of activity invocations not yet completed
    startWaiting,  \* handleStartWorkflow is blocked in we.Get
    startResp,     \* last response written by handleStartWorkflow
    sigResp,       \* last response written by a signal handler
    lastReq,       \* history: the signal request sigResp answers
    lastStart,     \* history: message of the latest start request
    enqueued,      \* history: <<kind, message>> of every accepted signal
    dispatched,    \* history: <<kind, message>> received by a selector callback
    probed,        \* history: messages taken by the ReceiveAsync probe
    last,          \* history: the latest selector dispatch
    nDispatched,   \* history: number of selector dispatches
    endDispatched, \* history: an end_chat callback has run
    ids,           \* history: arrival number of each pending payload
    taken,         \* history: per channel, the payloads removed, in order
    nActivities,   \* history: number of activity invocations started
    track          \* history variables are recorded (off in SteadySpec)

vars == <<pc, name, result, chans, actInput, inFlight, startWaiting,
          startResp, sigResp, lastReq, lastStart, enqueued, dispatched, probed,
          last, nDispatched, endDispatched, ids, taken, nActivities, track>>

wfVars == <<pc, name, result, chans, actInput, inFlight>>
histVars == <<enqueued, dispatched, probed, last, nDispatched, endDispatched,
              ids, taken, nActivities, track>>
gwVars == <<startWaiting, startResp, sigResp, lastReq, lastStart>>

----------------------------------------------------------------------------
(* Bounds and input sets *)

MaxSignals == 3

Messages == {"hi", "yes"}

StartMessages == {"", "World"}

WorkflowID == "chat-workflow-1"

RequestIDs == {"", WorkflowID, "chat-workflow-0"}

Kinds == {"user_prompt", "confirm", "end_chat"}

NoResp == [status |-> 0]

NoDispatch ==
    [kind |-> "none", msg |-> "", before |-> "", ok |-> TRUE, endHead |-> 0]

NoReq == [id |-> "", closed |-> FALSE]

NoStart == "none"

EmptyChannels == [user_prompt |-> <<>>, confirm |-> <<>>, end_chat |-> <<>>]

----------------------------------------------------------------------------
(* Pure helpers *)

Greet(x) == "Hello, " \o x \o "!"

ConfirmInput_NoPrefix(confirmMessage) == confirmMessage

ConfirmInput(confirmMessage) == "Confirmed: " \o confirmMessage

EndChatResult(endMessage) == "Chat ended: " \o endMessage

Track(new, old) == IF track THEN new ELSE old

Pending(c) == Len(c.user_prompt) + Len(c.confirm) + Len(c.end_chat)

terminated == pc \in {"done", "failed"}

SelectReady(c) ==
    IF c.user_prompt # <<>> THEN "user_prompt"
    ELSE IF c.confirm # <<>> THEN "confirm"
    ELSE IF c.end_chat # <<>> THEN "end_chat"
    ELSE "none"

----------------------------------------------------------------------------
Init ==
    /\ pc = "none"
    /\ name = ""
    /\ result = ""
    /\ chans = EmptyChannels
    /\ actInput = ""
    /\ inFlight = 0
    /\ startWaiting = FALSE
    /\ startResp = NoResp
    /\ sigResp = NoResp
    /\ lastReq = NoReq
    /\ lastStart = NoStart
    /\ enqueued = {}
    /\ dispatched = {}
    /\ probed = {}
    /\ last = NoDispatch
    /\ nDispatched = 0
    /\ endDispatched = FALSE
    /\ ids = EmptyChannels
    /\ taken = EmptyChannels
    /\ nActivities = 0
    /\ track = TRUE

----------------------------------------------------------------------------
(* Gateway: POST /start-workflow *)

handleStartWorkflow_NoValidation(message, engineOk) ==
    /\ pc = "none"
    /\ ~startWaiting
    /\ IF engineOk
       THEN /\ pc' = "greeting"
            /\ name' = message
            /\ actInput' = message
            /\ inFlight' = inFlight + 1
            /\ nActivities' = Track(nActivities + 1, nActivities)
            /\ startWaiting' = TRUE
            /\ UNCHANGED <<result, chans, startResp>>
       ELSE /\ startResp' = [status |-> 500, workflow_id |-> "",
                             run_id |-> "", error |-> "engine error"]
            /\ UNCHANGED <<wfVars, startWaiting, nActivities>>
    /\ lastStart' = message
    /\ UNCHANGED <<enqueued, dispatched, probed, last, nDispatched,
                   endDispatched, ids, taken, track, sigResp, lastReq>>

handleStartWorkflow(message, engineOk) ==
    IF message = ""
    THEN /\ startResp' = [status |-> 400, body |-> "Message is required"]
         /\ lastStart' = message
         /\ UNCHANGED <<wfVars, histVars, startWaiting, sigResp, lastReq>>
    ELSE /\ pc = "none"
         /\ ~startWaiting
         /\ IF engineOk
            THEN /\ pc' = "greeting"
                 /\ name' = message
                 /\ actInput' = message
                 /\ inFlight' = inFlight + 1
                 /\ nActivities' = Track(nActivities + 1, nActivities)
                 /\ startWaiting' = TRUE
                 /\ UNCHANGED <<result, chans, startResp>>
            ELSE /\ startResp' = [status |-> 500, workflow_id |-> "",
                                  run_id |-> "", error |-> "engine error"]
                 /\ UNCHANGED <<wfVars, startWaiting, nActivities>>
         /\ lastStart' = message
         /\ UNCHANGED <<enqueued, dispatched, probed, last, nDispatched,
                        endDispatched, ids, taken, track, sigResp, lastReq>>

StartWorkflowReturn_AfterGreeting ==
    /\ startWaiting
    /\ pc \notin {"none", "greeting"}
    /\ startWaiting' = FALSE
    /\ startResp' = IF pc = "failed"
                    THEN [status |-> 500, workflow_id |-> WorkflowID,
                          run_id |-> "run-1", error |-> "activity error"]
                    ELSE [status |-> 200, workflow_id |-> WorkflowID,
                          run_id |-> "run-1", result |-> result]
    /\ lastStart' = name
    /\ UNCHANGED <<wfVars, histVars, sigResp, lastReq>>

StartWorkflowReturn ==
    /\ startWaiting
    /\ terminated
    /\ startWaiting' = FALSE
    /\ startResp' = IF pc = "failed"
                    THEN [status |-> 500, workflow_id |-> WorkflowID,
                          run_id |-> "run-1", error |-> "activity error"]
                    ELSE [status |-> 200, workflow_id |-> WorkflowID,
                          run_id |-> "run-1", result |-> result]
    /\ lastStart' = name
    /\ UNCHANGED <<wfVars, histVars, sigResp, lastReq>>

----------------------------------------------------------------------------
(* Workflow: initial greeting *)

InitialGreeting_Absorbs(ok) ==
    /\ pc = "greeting"
    /\ IF ok
       THEN result' = Greet(name)
       ELSE UNCHANGED result
    /\ pc' = "select"
    /\ actInput' = ""
    /\ inFlight' = inFlight - 1
    /\ last' = Track([kind |-> "greeting", msg |-> name, before |-> "",
                      ok |-> ok, endHead |-> 0], last)
    /\ UNCHANGED <<name, chans, enqueued, dispatched, probed, nDispatched,
                   endDispatched, ids, taken, nActivities, track, gwVars>>

InitialGreeting(ok) ==
    /\ pc = "greeting"
    /\ IF ok
       THEN /\ result' = Greet(name)
            /\ pc' = "select"
       ELSE /\ pc' = "failed"
            /\ UNCHANGED result
    /\ actInput' = ""
    /\ inFlight' = inFlight - 1
    /\ last' = Track([kind |-> "greeting", msg |-> name, before |-> "",
                      ok |-> ok, endHead |-> 0], last)
    /\ UNCHANGED <<name, chans, enqueued, dispatched, probed, nDispatched,
                   endDispatched, ids, taken, nActivities, track, gwVars>>

----------------------------------------------------------------------------
(* Workflow: selector callbacks.  selector.Select runs the callback of the *)
(* first ready channel in the order the channels were added.               *)

Receive(c, kind) == [c EXCEPT ![kind] = Tail(c[kind])]

(* Arrival number of the end_chat payload pending at the wait, 0 if none. *)
EndHead == IF ids.end_chat # <<>> THEN Head(ids.end_chat) ELSE 0

RecordDispatch(kind, m) ==
    /\ dispatched' = Track(dispatched \cup {<<kind, m>>}, dispatched)
    /\ last' = Track([kind |-> kind, msg |-> m, before |-> result,
                      ok |-> TRUE, endHead |-> EndHead], last)
    /\ nDispatched' = Track(nDispatched + 1, nDispatched)

(* History of a removal: the payload at the head of the channel is handed  *)
(* to the callback or to the probe.                                       *)
RecordTake(kind, by) ==
    taken' = Track([taken EXCEPT ![kind] =
                       Append(@, [id |-> Head(ids[kind]), by |-> by])], taken)

ExecuteActivity(input) ==
    /\ actInput' = input
    /\ inFlight' = inFlight + 1
    /\ nActivities' = Track(nActivities + 1, nActivities)

UserPromptCallback_NoReceive ==
    /\ pc = "select"
    /\ SelectReady(chans) = "user_prompt"
    /\ LET userMessage == Head(chans.user_prompt)
       IN /\ UNCHANGED <<chans, ids>>
          /\ RecordTake("user_prompt", "callback")
          /\ ExecuteActivity(userMessage)
          /\ RecordDispatch("user_prompt", userMessage)
    /\ pc' = "act_user_prompt"
    /\ UNCHANGED <<name, result, enqueued, probed, endDispatched, track,
                   gwVars>>

UserPromptCallback ==
    /\ pc = "select"
    /\ SelectReady(chans) = "user_prompt"
    /\ LET userMessage == Head(chans.user_prompt)
       IN /\ chans' = Receive(chans, "user_prompt")
          /\ ids' = Track(Receive(ids, "user_prompt"), ids)
          /\ RecordTake("user_prompt", "callback")
          /\ ExecuteActivity(userMessage)
          /\ RecordDispatch("user_prompt", userMessage)
    /\ pc' = "act_user_prompt"
    /\ UNCHANGED <<name, result, enqueued, probed, endDispatched, track,
                   gwVars>>

ConfirmCallback_NoWait ==
    /\ pc = "select"
    /\ SelectReady(chans) = "confirm"
    /\ LET confirmMessage == Head(chans.confirm)
       IN /\ chans' = Receive(chans, "confirm")
          /\ ids' = Track(Receive(ids, "confirm"), ids)
          /\ RecordTake("confirm", "callback")
          /\ ExecuteActivity(ConfirmInput(confirmMessage))
          /\ RecordDispatch("confirm", confirmMessage)
    /\ pc' = "probe"
    /\ UNCHANGED <<name, result, enqueued, probed, endDispatched, track,
                   gwVars>>

ConfirmCallback ==
    /\ pc = "select"
    /\ SelectReady(chans) = "confirm"
    /\ LET confirmMessage == Head(chans.confirm)
       IN /\ chans' = Receive(chans, "confirm")
          /\ ids' = Track(Receive(ids, "confirm"), ids)
          /\ RecordTake("confirm", "callback")
          /\ ExecuteActivity(ConfirmInput(confirmMessage))
          /\ RecordDispatch("confirm", confirmMessage)
    /\ pc' = "act_confirm"
    /\ UNCHANGED <<name, result, enqueued, probed, endDispatched, track,
                   gwVars>>

EndChatCallback_CallsGreet ==
    /\ pc = "select"
    /\ SelectReady(chans) = "end_chat"
    /\ LET endMessage == Head(chans.end_chat)
       IN /\ chans' = Receive(chans, "end_chat")
          /\ ids' = Track(Receive(ids, "end_chat"), ids)
          /\ RecordTake("end_chat", "callback")
          /\ ExecuteActivity(EndChatResult(endMessage))
          /\ RecordDispatch("end_chat", endMessage)
    /\ endDispatched' = Track(TRUE, endDispatched)
    /\ pc' = "act_confirm"
    /\ UNCHANGED <<name, result, enqueued, probed, track, gwVars>>

EndChatCallback_Ends ==
    /\ pc = "select"
    /\ SelectReady(chans) = "end_chat"
    /\ LET endMessage == Head(chans.end_chat)
       IN /\ chans' = Receive(chans, "end_chat")
          /\ ids' = Track(Receive(ids, "end_chat"), ids)
          /\ RecordTake("end_chat", "callback")
          /\ result' = EndChatResult(endMessage)
          /\ RecordDispatch("end_chat", endMessage)
    /\ endDispatched' = Track(TRUE, endDispatched)
    /\ pc' = "done"
    /\ UNCHANGED <<name, actInput, inFlight, nActivities, enqueued, probed,
                   track, gwVars>>

EndChatCallback ==
    /\ pc = "select"
    /\ SelectReady(chans) = "end_chat"
    /\ LET endMessage == Head(chans.end_chat)
       IN /\ chans' = Receive(chans, "end_chat")
          /\ ids' = Track(Receive(ids, "end_chat"), ids)
          /\ RecordTake("end_chat", "callback")
          /\ result' = EndChatResult(endMessage)
          /\ RecordDispatch("end_chat", endMessage)
    /\ endDispatched' = Track(TRUE, endDispatched)
    /\ pc' = "probe"
    /\ UNCHANGED <<name, actInput, inFlight, nActivities, enqueued, probed,
                   track, gwVars>>

(* The activity started by a user_prompt or confirm callback completes or  *)
(* fails; the callback then returns to the loop.                           *)
ActivityResult_ClearsOnFailure(ok, promptResult, prior) ==
    IF ok THEN promptResult ELSE ""

ActivityResult(ok, promptResult, prior) == IF ok THEN promptResult ELSE prior

ActivityComplete(ok) ==
    /\ pc \in {"act_user_prompt", "act_confirm"}
    /\ result' = ActivityResult(ok, Greet(actInput), result)
    /\ last' = Track([last EXCEPT !.ok = ok], last)
    /\ actInput' = ""
    /\ inFlight' = inFlight - 1
    /\ pc' = "probe"
    /\ UNCHANGED <<name, chans, enqueued, dispatched, probed, nDispatched,
                   endDispatched, ids, taken, nActivities, track, gwVars>>

EndChatProbe_BreaksAlways ==
    /\ pc = "probe"
    /\ IF chans.end_chat # <<>>
       THEN /\ result' = Head(chans.end_chat)
            /\ probed' = Track(probed \cup {Head(chans.end_chat)}, probed)
            /\ chans' = Receive(chans, "end_chat")
            /\ ids' = Track(Receive(ids, "end_chat"), ids)
            /\ RecordTake("end_chat", "probe")
       ELSE UNCHANGED <<result, chans, probed, ids, taken>>
    /\ pc' = "done"
    /\ UNCHANGED <<name, actInput, inFlight, enqueued, dispatched, last,
                   nDispatched, endDispatched, nActivities, track, gwVars>>

(* if endChatChan.ReceiveAsync(&result) { break }                           *)
EndChatProbe ==
    /\ pc = "probe"
    /\ IF chans.end_chat # <<>>
       THEN /\ result' = Head(chans.end_chat)
            /\ probed' = Track(probed \cup {Head(chans.end_chat)}, probed)
            /\ chans' = Receive(chans, "end_chat")
            /\ ids' = Track(Receive(ids, "end_chat"), ids)
            /\ RecordTake("end_chat", "probe")
            /\ pc' = "done"
       ELSE /\ pc' = "select"
            /\ UNCHANGED <<result, chans, probed, ids, taken>>
    /\ UNCHANGED <<name, actInput, inFlight, enqueued, dispatched, last,
                   nDispatched, endDispatched, nActivities, track, gwVars>>

----------------------------------------------------------------------------
(* Gateway: POST /signal/...  *)

Accepted == Pending(chans) + nDispatched + Cardinality(probed)

(* Payloads of one channel are numbered 1, 2, ... in the order accepted.   *)
NextId(kind) == Len(ids[kind]) + Len(taken[kind]) + 1

(* Outcome of temporalClient.SignalWorkflow: "" is a nil error.            *)
SignalWorkflow(id) ==
    IF id # WorkflowID \/ pc = "none" THEN "workflow not found"
    ELSE IF terminated THEN "workflow execution already completed"
    ELSE ""

SignalResponse_AlwaysSuccess(err) ==
    [status |-> 200, success |-> TRUE, error |-> ""]

SignalResponse(err) ==
    IF err # ""
    THEN [status |-> 500, success |-> FALSE, error |-> err]
    ELSE [status |-> 200, success |-> TRUE, error |-> ""]

handleSignal(kind, id, message) ==
    /\ pc # "probe"
    /\ IF id = ""
       THEN /\ sigResp' = [status |-> 400, body |-> "WorkflowID is required"]
            /\ UNCHANGED <<chans, enqueued, ids>>
       ELSE LET err == SignalWorkflow(id)
            IN /\ err = "" => Accepted < MaxSignals
               /\ sigResp' = SignalResponse(err)
               /\ IF err = ""
                  THEN /\ chans' = [chans EXCEPT ![kind] = Append(@, message)]
                       /\ enqueued' = Track(enqueued \cup {<<kind, message>>},
                                            enqueued)
                       /\ ids' = Track([ids EXCEPT ![kind] =
                                           Append(@, NextId(kind))], ids)
                  ELSE UNCHANGED <<chans, enqueued, ids>>
    /\ lastReq' = [id |-> id, closed |-> terminated]
    /\ UNCHANGED <<pc, name, result, actInput, inFlight, startWaiting,
                   startResp, lastStart, dispatched, probed, last, nDispatched,
                   endDispatched, taken, nActivities, track>>

handleUserPromptSignal(id, message) == handleSignal("user_prompt", id, message)

handleConfirmSignal(id, message) == handleSignal("confirm", id, message)

handleEndChatSignal(id, message) == handleSignal("end_chat", id, message)

----------------------------------------------------------------------------
Next ==
    \/ \E m \in StartMessages, ok \in BOOLEAN : handleStartWorkflow(m, ok)
    \/ StartWorkflowReturn
    \/ \E ok \in BOOLEAN : InitialGreeting(ok)
    \/ UserPromptCallback
    \/ ConfirmCallback
    \/ EndChatCallback
    \/ \E ok \in BOOLEAN : ActivityComplete(ok)
    \/ EndChatProbe
    \/ \E id \in RequestIDs, m \in Messages : handleUserPromptSignal(id, m)
    \/ \E id \in RequestIDs, m \in Messages : handleConfirmSignal(id, m)
    \/ \E id \in RequestIDs, m \in Messages : handleEndChatSignal(id, m)

Spec == Init /\ [][Next]_vars

(* The engine schedules the workflow coroutine whenever it can run and     *)
(* every activity invocation completes or fails; requests are not forced.  *)
WorkflowStep ==
    \/ \E ok \in BOOLEAN : InitialGreeting(ok)
    \/ UserPromptCallback
    \/ ConfirmCallback
    \/ EndChatCallback
    \/ \E ok \in BOOLEAN : ActivityComplete(ok)
    \/ EndChatProbe
    \/ StartWorkflowReturn

FairSpec == Spec /\ WF_vars(WorkflowStep)

(* The same program with the history variables switched off, so that       *)
(* signals can keep arriving for ever: MaxSignals then bounds the pending  *)
(* payloads only.                                                          *)
SteadyInit ==
    /\ pc = "none"
    /\ name = ""
    /\ result = ""
    /\ chans = EmptyChannels
    /\ actInput = ""
    /\ inFlight = 0
    /\ startWaiting = FALSE
    /\ startResp = NoResp
    /\ sigResp = NoResp
    /\ lastReq = NoReq
    /\ lastStart = NoStart
    /\ enqueued = {}
    /\ dispatched = {}
    /\ probed = {}
    /\ last = NoDispatch
    /\ nDispatched = 0
    /\ endDispatched = FALSE
    /\ ids = EmptyChannels
    /\ taken = EmptyChannels
    /\ nActivities = 0
    /\ track = FALSE

SteadySpec == SteadyInit /\ [][Next]_vars /\ WF_vars(WorkflowStep)

TypeOK ==
    /\ pc \in {"none", "greeting", "select", "act_user_prompt", "act_confirm",
               "probe", "done", "failed"}
    /\ \A k \in Kinds : chans[k] \in Seq(Messages)
    /\ Accepted <= MaxSignals

----------------------------------------------------------------------------
(* Properties *)

EndChatConsumed == Len(chans'.end_chat) < Len(chans.end_chat)

(* C1: once an EndChat is pending for a waiting instance, the instance     *)
(* eventually terminates (SayHelloWorkflow returns).                       *)
C1_EndChatLeadsToTerminated ==
    (pc = "select" /\ chans.end_chat # <<>>) ~> (pc = "done")

(* C2: a workflow that returns without error returns "Chat ended: " + m    *)
(* for the message m of an EndChat signal that was enqueued.               *)
C2_FinalResultIsChatEnded ==
    pc = "done" =>
        \E m \in Messages : /\ <<"end_chat", m>> \in enqueued
                            /\ result = "Chat ended: " \o m

(* C3: once an EndChat has been consumed, no further signal is dispatched  *)
(* and current_result never changes again.                                 *)
C3_TerminatedIsAbsorbing ==
    [][(endDispatched \/ probed # {}) =>
          (result' = result /\ nDispatched' = nDispatched)]_vars

C5_LastWriterWins ==
    (pc = "probe" /\ ~endDispatched /\ last.ok) =>
        /\ last.kind = "user_prompt" => result = Greet(last.msg)
        /\ last.kind = "confirm" => result = Greet("Confirmed: " \o last.msg)

C5_Witness ==
    /\ pc = "probe"
    /\ ~endDispatched
    /\ last.ok
    /\ last.kind = "confirm"
    /\ nDispatched >= 2
    /\ last.before # Greet(name)
    /\ last.before # result

(* C6: when the activity of a UserPrompt or Confirm dispatch fails,        *)
(* current_result keeps its value and the instance is not terminated.      *)
C6_ActivityFailureAbsorbed ==
    [][(pc \in {"act_user_prompt", "act_confirm"} /\ pc' # pc /\ ~last'.ok) =>
          (result' = result /\ ~terminated')]_vars

C6_Witness ==
    /\ pc = "select"
    /\ last.kind \in {"user_prompt", "confirm"}
    /\ ~last.ok
    /\ result = last.before
    /\ nDispatched >= 2
    /\ SelectReady(chans) # "none"

(* C7: a signal request addressed to the terminated instance is answered   *)
(* with success false and an error, and changes neither the result nor     *)
(* any channel.                                                            *)
C7_SignalToTerminatedFails ==
    /\ []((lastReq.closed /\ lastReq.id = WorkflowID) =>
             (sigResp.status = 500 /\ ~sigResp.success /\ sigResp.error # ""))
    /\ [][terminated => (chans' = chans /\ result' = result)]_vars

C7_Witness ==
    /\ pc = "done"
    /\ lastReq.closed
    /\ lastReq.id = WorkflowID
    /\ Pending(chans) > 0

(* C8: when the instance terminates, every accepted signal has been        *)
(* dispatched to its handler; none is pending or discarded.                *)
C8_NoAcceptedSignalLost ==
    pc = "done" => (Pending(chans) = 0 /\ nDispatched = Accepted)

(* C9: after the greeting, current_result is the output of exactly one     *)
(* dispatch: Greet(initial), Greet(m), Greet("Confirmed: " + m) or         *)
(* "Chat ended: " + m for a consumed signal.                               *)
DispatchOutputs ==
    {Greet(name)}
    \cup {Greet(d[2]) : d \in {e \in dispatched : e[1] = "user_prompt"}}
    \cup {Greet("Confirmed: " \o d[2]) :
              d \in {e \in dispatched : e[1] = "confirm"}}
    \cup {"Chat ended: " \o d[2] : d \in {e \in dispatched : e[1] = "end_chat"}}
    \cup {"Chat ended: " \o m : m \in probed}

C9_ResultIsOneDispatchOutput ==
    pc \in {"select", "act_user_prompt", "act_confirm", "probe", "done"} =>
        result \in DispatchOutputs

(* C10: the result returned by POST /start-workflow for a non-empty        *)
(* message m is Greet(m).                                                  *)
C10_StartReturnsGreeting ==
    startResp.status = 200 => startResp.result = "Hello, " \o name \o "!"

(* C11: within each channel payloads are removed in the order they were   *)
(* enqueued and each payload is removed at most once.                      *)
C11_ChannelFifo ==
    \A k \in Kinds :
        /\ \A i \in 1..Len(taken[k]) : taken[k][i].id = i
        /\ \A j \in 1..Len(ids[k]) : ids[k][j] = Len(taken[k]) + j

C11_Witness ==
    /\ Len(taken.user_prompt) >= 2
    /\ Len(taken.end_chat) >= 1
    /\ \A m \in Messages : <<"user_prompt", m>> \in dispatched

(* C12: no channel starves another: a payload pending on confirm or        *)
(* end_chat is eventually taken (or the instance ends), also while         *)
(* user_prompt payloads keep arriving.                                     *)
C12_NoStarvation ==
    /\ (pc = "select" /\ chans.confirm # <<>>) ~>
           (pc = "act_confirm" \/ terminated)
    /\ (pc = "select" /\ chans.end_chat # <<>>) ~>
           (chans.end_chat = <<>> \/ terminated)

(* C13: a start request with an empty message and a signal request with an *)
(* empty workflow_id are answered with HTTP 400 and leave the instance     *)
(* (position, result, channels, activity) unchanged.                       *)
C13_ValidationRejects ==
    /\ [](lastStart = "" => startResp.status = 400)
    /\ []((lastReq.id = "" /\ sigResp # NoResp) => sigResp.status = 400)
    /\ [][(\/ (lastStart' = "" /\ lastStart # "")
           \/ (lastReq'.id = "" /\ (lastReq' # lastReq \/ sigResp' # sigResp)))
          => UNCHANGED <<pc, name, result, chans, actInput, inFlight>>]_vars

C13_Witness ==
    /\ pc = "select"
    /\ Pending(chans) > 0
    /\ lastStart = ""
    /\ lastReq.id = ""
    /\ sigResp.status = 400

(* C14: if an end_chat payload is pending together with a payload of       *)
(* another channel when the loop waits, the loop does not stop before the  *)
(* end_chat callback has run for that end_chat payload.                    *)
C14_Draining ==
    (pc = "done" /\ last.kind \in {"user_prompt", "confirm"} /\ last.endHead # 0)
        => \E i \in 1..Len(taken.end_chat) :
               taken.end_chat[i] = [id |-> last.endHead, by |-> "callback"]

(* C15: the termination check after the wait removes no payload and does   *)
(* not write current_result.                                               *)
C15_ProbeConsumesNothing ==
    [][pc = "probe" => (chans' = chans /\ result' = result)]_vars

(* C16: at most one activity invocation is in flight, and a dispatch       *)
(* starts only when no activity of an earlier dispatch is in flight.       *)
C16_OneActivityInFlight ==
    /\ [](inFlight <= 1)
    /\ [][nDispatched' # nDispatched => inFlight = 0]_vars

C16_Witness ==
    /\ pc = "act_confirm"
    /\ inFlight = 1
    /\ nDispatched >= 2
    /\ Pending(chans) >= 1

(* C17: the dispatch of EndChat(m) starts no activity and sets             *)
(* current_result to "Chat ended: " + m.                                   *)
C17_EndChatInvokesNoActivity ==
    [][(last'.kind = "end_chat" /\ nDispatched' # nDispatched) =>
          /\ nActivities' = nActivities
          /\ inFlight' = 0
          /\ result' = "Chat ended: " \o last'.msg]_vars

C17_Witness ==
    /\ pc = "probe"
    /\ last.kind = "end_chat"
    /\ result = "Chat ended: " \o last.msg
    /\ nDispatched >= 2
    /\ nActivities = nDispatched

C20_GreetingFailureEnds ==
    /\ [][(pc = "greeting" /\ pc' # "greeting" /\ ~last'.ok) =>
             (pc' = "failed" /\ result' = "" /\ chans' = chans)]_vars
    /\ [](pc = "failed" =>
             (result = "" /\ nDispatched = 0 /\ taken = EmptyChannels))
    /\ [][pc = "failed" => (pc' = "failed" /\ chans' = chans)]_vars

C20_Witness ==
    /\ pc = "failed"
    /\ Pending(chans) >= 2
    /\ startResp.status = 500
    /\ startResp.workflow_id = WorkflowID

====
